---- MODULE Spec2Model ----
(***************************************************************************)
(* Model of the toy scheduler in src/src/main.rs.                          *)
(*                                                                         *)
(* The heap of Rc<RefCell<Task>> cells is the sequence `tasks`; a handle   *)
(* is an index into it (allocation order).  Scheduler.cpus is the sequence *)
(* `cpus`; the Cpu with identifier k is cpus[k+1].                         *)
(*                                                                         *)
(* Two specifications:                                                     *)
(*   Spec    - add_cpus, add_tasks and then Cpu::next_task called on any   *)
(*             CPU in any order (the operations used as an API);           *)
(*   SpecRun - main's sequence: add_cpus, add_tasks, run_forever with its  *)
(*             loop stepped one Cpu::next_task call at a time, then        *)
(*             print_cpu_clocks and print_task_runtime.  Besides the small *)
(*             configurations it runs main's own one, 8 CPUs and 64 tasks. *)
(*                                                                         *)
(* `out` holds the lines printed after main's "###" separator; the line    *)
(* Task::run prints in every dispatch step is not recorded.                *)
(***************************************************************************)
EXTENDS Integers, Sequences, FiniteSets, TLC

VARIABLES
    pc,        \* position of the driver (main / run_forever)
    cpus,      \* Scheduler.cpus : Seq of Cpu records
    tasks,     \* heap of Task cells, indexed by handle
    rng,       \* values the thread-local generator is going to yield (cyclic)
    rngpos,    \* position of the generator in rng
    i,         \* run_forever's counter i
    cursor,    \* position of run_forever's iterator over self.cpus
    steps,     \* history: number of completed/aborted next_task calls per CPU
    consumed,  \* history: sum of the values do_work returned, per CPU
    panic,     \* "none" or the reason the process aborted
    dispatches, \* history: how often next_task selected each task, by handle
    out        \* the lines the reporting operations have printed

vars == <<pc, cpus, tasks, rng, rngpos, i, cursor, steps, consumed, panic,
          dispatches, out>>

----------------------------------------------------------------------------
(* Bounds of the model *)

MaxCpus == 3
MaxTasks == 3
TapeLen == 2
MaxSteps == 6
MaxTick == 1010

(* Constants of the program *)

IdleTaskId == 0
IdleQuantum == 1
RandLow == 1
RandHigh == 1000
FirstTaskId == 1000
TickBudget == 1000
RefCpus == 8
RefTasks == 64

NoPanic == "none"
NextStatePanic == "next state should be RUNNABLE or WAIT"
DivZeroPanic == "attempt to calculate the remainder with a divisor of zero"

\* rng.gen_range(1..1000): a value of the half-open range; the model draws
\* the two ends of the range
WorkQuanta == {RandLow, RandHigh - 1}

----------------------------------------------------------------------------
(* Task *)

TaskNew(id, task_impl) ==
    [id |-> id, state |-> "RUNNABLE", total_runtime |-> 0, task_impl |-> task_impl]

\* variant: the idle workload returns 2
DoWork_IdleTwo(task_impl, draw) ==
    IF task_impl = "idle" THEN 2 ELSE draw

\* TaskImpl::do_work of the two implementations; draw is the generator's value
DoWork(task_impl, draw) ==
    IF task_impl = "idle" THEN IdleQuantum ELSE draw

\* variant: the slice output reports one unit whatever do_work returned
TaskRun_UnitClock(task, draw) ==
    LET work_quantity == DoWork(task.task_impl, draw)
    IN  [task |-> [task EXCEPT !.total_runtime = @ + work_quantity],
         out  |-> [next_state |-> "RUNNABLE", clock_consumed |-> 1]]

\* variant: total_runtime is assigned, not accumulated
TaskRun_Assign(task, draw) ==
    LET work_quantity == DoWork(task.task_impl, draw)
    IN  [task |-> [task EXCEPT !.total_runtime = work_quantity],
         out  |-> [next_state |-> "RUNNABLE", clock_consumed |-> work_quantity]]

\* variant: run leaves the task RUNNING
TaskRun_Running(task, draw) ==
    LET work_quantity == DoWork(task.task_impl, draw)
    IN  [task |-> [task EXCEPT !.total_runtime = @ + work_quantity],
         out  |-> [next_state |-> "RUNNING", clock_consumed |-> work_quantity]]

\* Task::run: the updated task and the TaskSliceOutput
TaskRun(task, draw) ==
    LET work_quantity == DoWork(task.task_impl, draw)
    IN  [task |-> [task EXCEPT !.total_runtime = @ + work_quantity],
         out  |-> [next_state |-> "RUNNABLE", clock_consumed |-> work_quantity]]

----------------------------------------------------------------------------
(* Cpu *)

\* Cpu::new(id); h is the handle of the idle task it allocates
CpuNew(id, h) ==
    [id |-> id, clock |-> 0, runq |-> <<>>, running_task |-> h, idle_task |-> h]

\* Cpu::add_task
CpuAddTask(cpu, h) ==
    [cpu EXCEPT !.runq = Append(@, h)]

\* variant: the previous runner is put at the head of the queue
RequeueOld_Front(runq, old_task, old_id, idle_id) ==
    IF old_id # idle_id THEN <<old_task>> \o runq ELSE runq

\* variant: the previous runner is not requeued
RequeueOld_Never(runq, old_task, old_id, idle_id) == runq

\* variant: the previous runner is requeued without the idle test
RequeueOld_Always(runq, old_task, old_id, idle_id) ==
    Append(runq, old_task)

\* next_task, lines 35-38: the previous runner rejoins the queue unless its
\* id is the idle task's id
RequeueOld(runq, old_task, old_id, idle_id) ==
    IF old_id # idle_id THEN Append(runq, old_task) ELSE runq

\* variant: the new task is popped from the back of the queue
SelectNew_PopBack(runq, idle_task) ==
    IF runq = <<>>
    THEN [task |-> idle_task, runq |-> runq]
    ELSE [task |-> runq[Len(runq)], runq |-> SubSeq(runq, 1, Len(runq) - 1)]

\* next_task, lines 40-41: pop_front().unwrap_or(idle_task)
SelectNew(runq, idle_task) ==
    IF runq = <<>>
    THEN [task |-> idle_task, runq |-> runq]
    ELSE [task |-> Head(runq), runq |-> Tail(runq)]

\* variant: the new task is popped before the previous runner is requeued
Rotate_PopFirst(runq, old_task, old_id, idle_id, idle_task) ==
    LET sel == SelectNew(runq, idle_task)
    IN  [task |-> sel.task, runq |-> RequeueOld(sel.runq, old_task, old_id, idle_id)]

\* next_task, lines 35-42: requeue the previous runner, then select
Rotate(runq, old_task, old_id, idle_id, idle_task) ==
    SelectNew(RequeueOld(runq, old_task, old_id, idle_id), idle_task)

\* variant: the returned next state is not applied
ApplyNextState_Keep(task, next_state) == task

\* next_task, line 49: the returned next state becomes the task's state
ApplyNextState(task, next_state) == [task EXCEPT !.state = next_state]

\* Cpu::next_task on cpus[c]
NextTask(c) ==
    LET cpu      == cpus[c]
        old_task == cpu.running_task
        sel      == Rotate(cpu.runq, old_task, tasks[old_task].id,
                           tasks[cpu.idle_task].id, cpu.idle_task)
        new      == sel.task
        draw     == rng[rngpos]
        started  == [tasks[new] EXCEPT !.state = "RUNNING"]
        r        == TaskRun(started, draw)
        aborts   == r.out.next_state = "RUNNING"
    IN  /\ cpus' = [cpus EXCEPT ![c] = [cpu EXCEPT !.runq = sel.runq,
                                                  !.running_task = new,
                                                  !.clock = @ + r.out.clock_consumed]]
        /\ tasks' = [tasks EXCEPT ![new] =
                        IF aborts THEN r.task
                        ELSE ApplyNextState(r.task, r.out.next_state)]
        /\ panic' = IF aborts THEN NextStatePanic ELSE panic
        /\ rngpos' = IF started.task_impl = "randomuser"
                     THEN (rngpos % TapeLen) + 1 ELSE rngpos
        /\ steps' = [steps EXCEPT ![c] = @ + 1]
        /\ consumed' = [consumed EXCEPT ![c] = @ + DoWork(started.task_impl, draw)]
        /\ dispatches' = [dispatches EXCEPT ![new] = @ + 1]
        /\ UNCHANGED <<rng, out>>

----------------------------------------------------------------------------
(* Scheduler *)

\* Scheduler::add_cpus(cpu_count) on the new scheduler
AddCpus(cpu_count) ==
    /\ pc = "start"
    /\ panic = NoPanic
    /\ tasks' = tasks \o [k \in 1..cpu_count |-> TaskNew(IdleTaskId, "idle")]
    /\ cpus' = cpus \o [k \in 1..cpu_count |-> CpuNew(Len(cpus) + k - 1, Len(tasks) + k)]
    /\ steps' = [k \in 1..(Len(cpus) + cpu_count) |-> 0]
    /\ consumed' = [k \in 1..(Len(cpus) + cpu_count) |-> 0]
    /\ dispatches' = dispatches \o [k \in 1..cpu_count |-> 0]
    /\ pc' = "cpus_added"
    /\ UNCHANGED <<rng, rngpos, i, cursor, panic, out>>

\* variant: off by one in the assignment
AssignCpu_Shift(task_id, cpu_count) == (task_id + 1) % cpu_count

\* add_tasks, line 152
AssignCpu(task_id, cpu_count) == task_id % cpu_count

\* add_tasks, the for loop of lines 149-155 from task_id up to last
RECURSIVE AddTasksLoop(_, _, _, _)
AddTasksLoop(cs, ts, task_id, last) ==
    IF task_id > last THEN [cpus |-> cs, tasks |-> ts]
    ELSE LET h      == Len(ts) + 1
             cpu_id == AssignCpu(task_id, Len(cs))
         IN  AddTasksLoop([cs EXCEPT ![cpu_id + 1] = CpuAddTask(@, h)],
                          Append(ts, TaskNew(task_id, "randomuser")),
                          task_id + 1, last)

\* Scheduler::add_tasks(task_count); with no CPU the remainder of line 152
\* divides by zero in the first iteration and the process aborts
AddTasks(task_count) ==
    /\ pc = "cpus_added"
    /\ panic = NoPanic
    /\ IF Len(cpus) = 0 /\ task_count > 0
       THEN /\ panic' = DivZeroPanic
            /\ UNCHANGED <<cpus, tasks, pc, dispatches>>
       ELSE LET res == AddTasksLoop(cpus, tasks, FirstTaskId, FirstTaskId + task_count - 1)
            IN  /\ cpus' = res.cpus
                /\ tasks' = res.tasks
                /\ dispatches' = dispatches \o [k \in 1..task_count |-> 0]
                /\ pc' = "tasks_added"
                /\ UNCHANGED panic
    /\ UNCHANGED <<rng, rngpos, i, cursor, steps, consumed, out>>

\* number of next_task calls made so far, over all CPUs
RECURSIVE SumSteps(_)
SumSteps(k) == IF k = 0 THEN 0 ELSE steps[k] + SumSteps(k - 1)
TotalSteps == SumSteps(Len(steps))

\* a call of Cpu::next_task on any CPU of the scheduler
CallNextTask(c) ==
    /\ pc \in {"cpus_added", "tasks_added"}
    /\ panic = NoPanic
    /\ c \in 1..Len(cpus)
    /\ TotalSteps < MaxSteps
    /\ NextTask(c)
    /\ UNCHANGED <<pc, i, cursor>>

\* Scheduler::run_forever, line 159
RunForeverEnter ==
    /\ pc = "tasks_added"
    /\ panic = NoPanic
    /\ i' = 0
    /\ pc' = "loop_head"
    /\ UNCHANGED <<cpus, tasks, rng, rngpos, cursor, steps, consumed, panic,
                   dispatches, out>>

\* variant: the loop ends when the next pass would reach the budget
LoopHead_EarlyExit ==
    /\ pc = "loop_head"
    /\ IF i + Len(cpus) >= TickBudget
       THEN pc' = "returned" /\ UNCHANGED cursor
       ELSE pc' = "for_loop" /\ cursor' = 0
    /\ UNCHANGED <<cpus, tasks, rng, rngpos, i, steps, consumed, panic,
                   dispatches, out>>

\* run_forever, lines 160-165: the test of i and the start of the for loop
LoopHead ==
    /\ pc = "loop_head"
    /\ IF i = TickBudget
       THEN pc' = "returned" /\ UNCHANGED cursor
       ELSE pc' = "for_loop" /\ cursor' = 0
    /\ UNCHANGED <<cpus, tasks, rng, rngpos, i, steps, consumed, panic,
                   dispatches, out>>

\* variant: the CPUs are visited from the last to the first
ForStep_Reverse ==
    /\ pc = "for_loop"
    /\ panic = NoPanic
    /\ cursor < Len(cpus)
    /\ i < MaxTick
    /\ NextTask(Len(cpus) - cursor)
    /\ i' = i + 1
    /\ cursor' = cursor + 1
    /\ UNCHANGED pc

\* run_forever, lines 165-168: one iteration of the for loop
ForStep ==
    /\ pc = "for_loop"
    /\ panic = NoPanic
    /\ cursor < Len(cpus)
    /\ i < MaxTick
    /\ NextTask(cursor + 1)
    /\ i' = i + 1
    /\ cursor' = cursor + 1
    /\ UNCHANGED pc

\* run_forever: the iterator is exhausted, back to the top of the loop
ForEnd ==
    /\ pc = "for_loop"
    /\ cursor = Len(cpus)
    /\ pc' = "loop_head"
    /\ UNCHANGED <<cpus, tasks, rng, rngpos, i, cursor, steps, consumed, panic,
                   dispatches, out>>

\* the lines of print_cpu_clocks, lines 173-176, for the CPUs from k on
RECURSIVE CpuClockLines(_, _, _)
CpuClockLines(cs, ts, k) ==
    IF k > Len(cs) THEN <<>>
    ELSE << [kind |-> "cpu", id |-> cs[k].id, value |-> cs[k].clock],
            [kind |-> "idle time", value |-> ts[cs[k].idle_task].total_runtime] >>
         \o CpuClockLines(cs, ts, k + 1)

\* Scheduler::print_cpu_clocks, called by main after run_forever
PrintCpuClocks ==
    /\ pc = "returned"
    /\ out' = out \o CpuClockLines(cpus, tasks, 1)
    /\ pc' = "clocks_printed"
    /\ UNCHANGED <<cpus, tasks, rng, rngpos, i, cursor, steps, consumed, panic,
                   dispatches>>

\* print_task_runtime, lines 181-183: the lines of one run queue
QueueLines(runq, ts) ==
    [k \in 1..Len(runq) |->
        [kind |-> "task", id |-> ts[runq[k]].id, value |-> ts[runq[k]].total_runtime]]

\* variant: the running task is reported in front of the queue
ReportedTasks_WithRunner(cpu) == <<cpu.running_task>> \o cpu.runq

\* print_task_runtime, line 181: the tasks reported for one CPU
ReportedTasks(cpu) == cpu.runq

\* the lines of print_task_runtime, lines 180-184, for the CPUs from k on
RECURSIVE TaskRuntimeLines(_, _, _)
TaskRuntimeLines(cs, ts, k) ==
    IF k > Len(cs) THEN <<>>
    ELSE QueueLines(ReportedTasks(cs[k]), ts) \o TaskRuntimeLines(cs, ts, k + 1)

\* variant: the queues are drained while they are printed
PrintTaskRuntime_Drain ==
    /\ pc = "clocks_printed"
    /\ out' = out \o TaskRuntimeLines(cpus, tasks, 1)
    /\ cpus' = [k \in 1..Len(cpus) |-> [cpus[k] EXCEPT !.runq = <<>>]]
    /\ pc' = "done"
    /\ UNCHANGED <<tasks, rng, rngpos, i, cursor, steps, consumed, panic,
                   dispatches>>

\* Scheduler::print_task_runtime, called by main after print_cpu_clocks
PrintTaskRuntime ==
    /\ pc = "clocks_printed"
    /\ out' = out \o TaskRuntimeLines(cpus, tasks, 1)
    /\ pc' = "done"
    /\ UNCHANGED <<cpus, tasks, rng, rngpos, i, cursor, steps, consumed, panic,
                   dispatches>>

----------------------------------------------------------------------------
(* Specifications *)

Init ==
    /\ pc = "start"
    /\ cpus = <<>>
    /\ tasks = <<>>
    /\ rng \in [1..TapeLen -> WorkQuanta]
    /\ rngpos = 1
    /\ i = 0
    /\ cursor = 0
    /\ steps = <<>>
    /\ consumed = <<>>
    /\ panic = NoPanic
    /\ dispatches = <<>>
    /\ out = <<>>

DoAddCpus == \E n \in 0..MaxCpus : AddCpus(n)
DoAddTasks == \E t \in 0..MaxTasks : AddTasks(t)
DoNextTask == \E c \in 1..MaxCpus : CallNextTask(c)

Next == DoAddCpus \/ DoAddTasks \/ DoNextTask

Spec == Init /\ [][Next]_vars

\* main, lines 190-191: the configuration main builds
MainAddCpus == AddCpus(RefCpus)
MainAddTasks == AddTasks(RefTasks)

NextRun ==
    \/ DoAddCpus \/ DoAddTasks \/ MainAddCpus \/ MainAddTasks
    \/ RunForeverEnter \/ LoopHead \/ ForStep \/ ForEnd
    \/ PrintCpuClocks \/ PrintTaskRuntime

SpecRun == Init /\ [][NextRun]_vars

----------------------------------------------------------------------------
(* Vocabulary of the properties *)

Cpus == 1..Len(cpus)
Handles == 1..Len(tasks)
Range(s) == {s[k] : k \in 1..Len(s)}
IsUser(h) == tasks[h].task_impl = "randomuser"
UserHandles == {h \in Handles : IsUser(h)}
\* next_task was called on cpus[c] in this step
Stepped(c) == c \in DOMAIN steps /\ c \in DOMAIN steps' /\ steps'[c] = steps[c] + 1
\* ids of the tasks of a queue, head first
Ids(q) == [k \in 1..Len(q) |-> tasks[q[k]].id]
\* tasks a CPU holds: its run queue and its running task
Held(c) == Range(cpus[c].runq) \cup {cpus[c].running_task}


\* sum of the cumulative runtimes of a set of tasks
RECURSIVE SumRuntime(_)
SumRuntime(S) ==
    IF S = {} THEN 0
    ELSE LET h == CHOOSE x \in S : TRUE
         IN  tasks[h].total_runtime + SumRuntime(S \ {h})

----------------------------------------------------------------------------
(* C1: FIFO rotation.  When next_task is called on a CPU whose run queue   *)
(* [t1..tn] is not empty and whose running task r is not its idle task,    *)
(* t1 becomes the running task and the queue becomes [t2..tn, r].          *)
C1_FifoRotation ==
    [][\A c \in Cpus :
         (Stepped(c) /\ cpus[c].runq # <<>>
                     /\ cpus[c].running_task # cpus[c].idle_task)
         => /\ cpus'[c].running_task = Head(cpus[c].runq)
            /\ cpus'[c].runq = Append(Tail(cpus[c].runq), cpus[c].running_task)]_vars

\* a rotation has happened: a task that already ran is the tail of a queue of
\* two behind a running user task
C1_Witness ==
    \E c \in Cpus :
        /\ Len(cpus[c].runq) >= 2
        /\ IsUser(cpus[c].running_task)
        /\ tasks[cpus[c].runq[Len(cpus[c].runq)]].total_runtime > 0
        /\ tasks[cpus[c].running_task].total_runtime > 0

(* C2: concrete scenario, second step (2 CPUs, tasks 1000 and 1001).  As   *)
(* stated: with task 1000 running on CPU 0 and CPU 0's queue empty, the    *)
(* next dispatch step on CPU 0 runs the idle task, advances the clock by   *)
(* 1 and leaves task 1000 alone in the queue.                              *)
C2_Scenario ==
    /\ Len(cpus) = 2
    /\ Cardinality(UserHandles) = 2
    /\ tasks[cpus[1].running_task].id = FirstTaskId
    /\ cpus[1].runq = <<>>
    /\ Stepped(1)

C2_Original ==
    [][C2_Scenario
         => /\ cpus'[1].running_task = cpus[1].idle_task
            /\ cpus'[1].clock = cpus[1].clock + 1
            /\ cpus'[1].runq = <<cpus[1].running_task>>]_vars

(* C2 as amended: in that step task 1000 is requeued and popped again at   *)
(* once, so it stays the running task, the queue is empty afterwards, the  *)
(* clock and task 1000's runtime advance by the quantity task 1000's       *)
(* do_work returned, and the idle task does not run.                       *)
C2_Amended ==
    [][C2_Scenario
         => /\ cpus'[1].running_task = cpus[1].running_task
            /\ cpus'[1].runq = <<>>
            /\ cpus'[1].clock = cpus[1].clock + rng[rngpos]
            /\ tasks'[cpus[1].running_task].total_runtime
                 = tasks[cpus[1].running_task].total_runtime + rng[rngpos]
            /\ tasks'[cpus[1].idle_task] = tasks[cpus[1].idle_task]]_vars

\* the second step of the scenario has been taken
C2_Witness ==
    /\ Len(cpus) = 2
    /\ Cardinality(UserHandles) = 2
    /\ steps[1] = 2
    /\ tasks[cpus[1].idle_task].total_runtime = 0
    /\ tasks[cpus[1].running_task].id = FirstTaskId
    /\ cpus[1].runq = <<>>

(* C3: run_forever returns after exactly 1000 dispatch steps, for every    *)
(* CPU count n >= 1.  Safety part: never more than 1000 next_task calls    *)
(* are made, and exactly 1000 have been made when run_forever has returned.*)
C3_TickBudget ==
    Len(cpus) >= 1
    => /\ TotalSteps <= TickBudget
       /\ pc = "returned" => TotalSteps = TickBudget

(* C4: idle-task exclusion.  No CPU's run queue contains that CPU's idle   *)
(* task.                                                                   *)
C4_IdleExclusion ==
    \A c \in Cpus : cpus[c].idle_task \notin Range(cpus[c].runq)

\* the idle task has been the previous runner of a dispatch step that found
\* the queue non-empty
C4_Witness ==
    \E c \in Cpus :
        /\ steps[c] >= 2
        /\ tasks[cpus[c].idle_task].total_runtime >= 1
        /\ IsUser(cpus[c].running_task)
        /\ cpus[c].runq # <<>>

(* C5: idle fallback.  next_task on a CPU whose queue is empty and whose   *)
(* running task is its idle task leaves idle running and the queue empty,  *)
(* and adds exactly 1 to the clock and to the idle task's runtime.         *)
C5_IdleFallback ==
    [][\A c \in Cpus :
         (Stepped(c) /\ cpus[c].runq = <<>>
                     /\ cpus[c].running_task = cpus[c].idle_task)
         => /\ cpus'[c].running_task = cpus[c].idle_task
            /\ cpus'[c].runq = <<>>
            /\ cpus'[c].clock = cpus[c].clock + 1
            /\ tasks'[cpus[c].idle_task].total_runtime
                 = tasks[cpus[c].idle_task].total_runtime + 1]_vars

\* an idle CPU has been stepped twice
C5_Witness ==
    \E c \in Cpus :
        /\ cpus[c].runq = <<>>
        /\ cpus[c].running_task = cpus[c].idle_task
        /\ tasks[cpus[c].idle_task].total_runtime = 2
        /\ cpus[c].clock = 2

(* C6: clock conservation.  Each CPU's clock equals the sum of the values  *)
(* do_work returned in its dispatch steps, which equals the runtime of its *)
(* idle task plus the runtimes of the tasks it holds, queued or running.   *)
C6_ClockConservation ==
    \A c \in Cpus :
        /\ cpus[c].clock = consumed[c]
        /\ cpus[c].clock = tasks[cpus[c].idle_task].total_runtime
                           + SumRuntime(Held(c) \ {cpus[c].idle_task})

\* a CPU whose idle task and two of whose user tasks have all run
C6_Witness ==
    \E c \in Cpus :
        /\ tasks[cpus[c].idle_task].total_runtime > 0
        /\ Cardinality({h \in Held(c) : IsUser(h) /\ tasks[h].total_runtime > 0}) >= 2

(* C7: monotonic runtime with frame.  In a dispatch step the runtime of    *)
(* the selected task grows by exactly what its do_work returned (1 for     *)
(* idle, a value of 1..999 for a random user task) and the runtime of      *)
(* every other task is unchanged; no runtime ever decreases.               *)
C7_RuntimeFrame ==
    [][/\ \A c \in Cpus :
            Stepped(c)
            => LET h == cpus'[c].running_task
                   w == tasks'[h].total_runtime - tasks[h].total_runtime
               IN  /\ w = consumed'[c] - consumed[c]
                   /\ IF h = cpus[c].idle_task THEN w = 1
                      ELSE w = rng[rngpos] /\ w \in 1..999
                   /\ \A g \in Handles \ {h} :
                        tasks'[g].total_runtime = tasks[g].total_runtime
       /\ \A g \in Handles : tasks'[g].total_runtime >= tasks[g].total_runtime]_vars

\* a user task has run while another one waited in the same queue
C7_Witness ==
    \E c \in Cpus :
        /\ IsUser(cpus[c].running_task)
        /\ tasks[cpus[c].running_task].total_runtime > 0
        /\ \E k \in 1..Len(cpus[c].runq) :
              tasks[cpus[c].runq[k]].total_runtime = 0

(* C8: static assignment, no migration.  add_tasks on C >= 1 CPUs puts     *)
(* the task with each id of 1000..1000+T-1 on CPU (id mod C), queues in    *)
(* increasing id order; afterwards each task is held by CPU (id mod C)     *)
(* and by no other CPU.                                                    *)
C8_Held ==
    (pc = "tasks_added" /\ Len(cpus) >= 1)
    => \A h \in UserHandles :
          {c \in Cpus : h \in Held(c)} = {(tasks[h].id % Len(cpus)) + 1}

C8_Placed ==
    (pc = "cpus_added" /\ pc' = "tasks_added" /\ Len(cpus) >= 1)
    => LET T == Len(tasks') - Len(tasks)
       IN  \A c \in Cpus :
             LET q == cpus'[c].runq
             IN  /\ {tasks'[q[k]].id : k \in 1..Len(q)}
                      = {id \in FirstTaskId..(FirstTaskId + T - 1) :
                            id % Len(cpus) = c - 1}
                 /\ \A k \in 1..(Len(q) - 1) : tasks'[q[k]].id < tasks'[q[k + 1]].id

C8_StaticAssignment == [](C8_Held) /\ [][C8_Placed]_vars

\* two CPUs have been stepped after add_tasks gave one of them two tasks
C8_Witness ==
    /\ pc = "tasks_added"
    /\ Len(cpus) >= 2
    /\ \A c \in Cpus : steps[c] >= 2 /\ IsUser(cpus[c].running_task)
    /\ \E c \in Cpus : Cardinality(Held(c)) >= 2

(* C9: cross-CPU interleaving.  run_forever steps the CPUs cyclically in   *)
(* identifier order, one step each: after i steps CPU k has taken          *)
(* i div n steps, plus one if k < i mod n; so step counts differ by at     *)
(* most 1 and a lower-id CPU never has fewer steps than a higher-id one.   *)
C9_Interleaving ==
    Len(cpus) >= 1
    => /\ \A c \in Cpus :
            steps[c] = (i \div Len(cpus)) + (IF c - 1 < i % Len(cpus) THEN 1 ELSE 0)
       /\ \A c, d \in Cpus :
            /\ steps[c] - steps[d] \in {-1, 0, 1}
            /\ c < d => steps[c] >= steps[d]
       /\ i = TotalSteps

\* in the middle of a round of three CPUs, after some complete rounds
C9_Witness ==
    /\ Len(cpus) = 3
    /\ pc = "for_loop"
    /\ steps = <<5, 5, 4>>

(* C10: the contract-violation abort is unreachable.  Task::run always     *)
(* returns next state RUNNABLE: next_task never panics on a RUNNING next   *)
(* state, the task it ran is RUNNABLE afterwards, and no task is in WAIT.  *)
C10_NoContractViolation ==
    /\ panic # NextStatePanic
    /\ \A h \in Handles : tasks[h].state # "WAIT"
    /\ \A c \in Cpus : steps[c] > 0 => tasks[cpus[c].running_task].state = "RUNNABLE"

\* both an idle task and a user task have been run
C10_Witness ==
    /\ \E c \in Cpus : steps[c] > 0 /\ cpus[c].running_task = cpus[c].idle_task
    /\ \E c \in Cpus : steps[c] > 0 /\ IsUser(cpus[c].running_task)

----------------------------------------------------------------------------
(* Vocabulary of the later properties *)

\* the user tasks whose id selects CPU cpus[c]
Assigned(c) == {h \in UserHandles : tasks[h].id % Len(cpus) = c - 1}
\* a set of handles as a sequence, in allocation order
RECURSIVE SortedSeq(_)
SortedSeq(S) ==
    IF S = {} THEN <<>>
    ELSE LET m == CHOOSE x \in S : \A y \in S : x <= y
         IN  <<m>> \o SortedSeq(S \ {m})
\* the lines of print_task_runtime in out
TaskLines == SelectSeq(out, LAMBDA l : l.kind = "task")
\* number of tasks queued on the CPUs before cpus[c]
RECURSIVE QueuedBefore(_)
QueuedBefore(c) == IF c <= 1 THEN 0 ELSE Len(cpus[c - 1].runq) + QueuedBefore(c - 1)
\* add_tasks has returned normally
Populated == pc \notin {"start", "cpus_added"} /\ panic = NoPanic

----------------------------------------------------------------------------
(* C11: task identifiers are unique.  Any two distinct task instances,     *)
(* user tasks and idle tasks alike, have different ids.                    *)
C11_UniqueIds ==
    \A g, h \in Handles : g # h => tasks[g].id # tasks[h].id

(* C12: the only abnormal termination is the RUNNING next-state check of   *)
(* next_task.  For every number of CPUs, zero included, and every task     *)
(* count, no other operation aborts the process.                           *)
C12_OnlyContractAbort ==
    panic \in {NoPanic, NextStatePanic}

(* C13: the final per-task report omits the runners.  print_task_runtime   *)
(* emits one line per queued task, CPUs in id order and each queue head to *)
(* tail, and no line for a running task; when every CPU has an assigned    *)
(* task the report has T - C lines for T tasks on C CPUs.                  *)
C13_ReportOmitsRunners ==
    pc = "done"
    => /\ Len(TaskLines) = QueuedBefore(Len(cpus) + 1)
       /\ \A c \in Cpus : \A k \in 1..Len(cpus[c].runq) :
             /\ TaskLines[QueuedBefore(c) + k].id = tasks[cpus[c].runq[k]].id
             /\ TaskLines[QueuedBefore(c) + k].value
                  = tasks[cpus[c].runq[k]].total_runtime
       /\ \A c \in Cpus : \A k \in 1..Len(TaskLines) :
             TaskLines[k].id # tasks[cpus[c].running_task].id
       /\ (\A c \in Cpus : Assigned(c) # {})
          => Len(TaskLines) = Cardinality(UserHandles) - Len(cpus)

\* the report of main's configuration: 56 lines for 64 tasks
C13_Witness ==
    /\ pc = "done"
    /\ Len(cpus) = 8
    /\ Cardinality(UserHandles) = 64
    /\ Len(TaskLines) = 56

(* C14: reporting is read-only.  print_cpu_clocks and print_task_runtime   *)
(* leave every CPU's clock, run queue and running task and every task's    *)
(* state and runtime unchanged.                                            *)
C14_ReportReadOnly ==
    [][out' # out => cpus' = cpus /\ tasks' = tasks]_vars

\* both reports have been printed for CPUs with queued tasks that have run
C14_Witness ==
    /\ pc = "done"
    /\ \E k \in 1..Len(out) : out[k].kind = "cpu" /\ out[k].value > 0
    /\ \E k \in 1..Len(out) : out[k].kind = "task" /\ out[k].value > 0

(* C15: RUNNING is held only inside a dispatch call.  Before the first     *)
(* step and after every completed next_task call every task, running and   *)
(* idle tasks included, is RUNNABLE.                                       *)
C15_RunnableAtBoundaries ==
    \A h \in Handles : tasks[h].state = "RUNNABLE"

\* an idle task and a user task have both been dispatched
C15_Witness ==
    /\ \E h \in Handles : ~IsUser(h) /\ dispatches[h] > 0
    /\ \E h \in Handles : IsUser(h) /\ dispatches[h] > 0

(* C16: first dispatch from idle.  next_task on a CPU that runs its idle   *)
(* task and has queue [t1..tn], n >= 1, makes t1 the running task, leaves  *)
(* [t2..tn] (idle is not appended), and adds the quantity t1's do_work     *)
(* returned to the clock and to t1's runtime.                              *)
C16_FirstDispatch ==
    [][\A c \in Cpus :
         (Stepped(c) /\ cpus[c].runq # <<>>
                     /\ cpus[c].running_task = cpus[c].idle_task)
         => LET t1 == Head(cpus[c].runq)
            IN  /\ cpus'[c].running_task = t1
                /\ cpus'[c].runq = Tail(cpus[c].runq)
                /\ cpus'[c].clock = cpus[c].clock + rng[rngpos]
                /\ tasks'[t1].total_runtime = tasks[t1].total_runtime + rng[rngpos]
                /\ consumed'[c] = consumed[c] + rng[rngpos]]_vars

\* a CPU has taken its first task from a queue of at least two
C16_Witness ==
    \E c \in Cpus :
        /\ steps[c] = 1
        /\ IsUser(cpus[c].running_task)
        /\ cpus[c].runq # <<>>
        /\ tasks[cpus[c].idle_task].total_runtime = 0
        /\ cpus[c].clock = tasks[cpus[c].running_task].total_runtime

(* C17: task conservation per CPU.  A CPU's queue holds no task twice, its *)
(* running task is not in its queue, and queue plus running task (when not *)
(* idle) is exactly the set of tasks add_tasks assigned to it; with k >= 1 *)
(* assigned tasks the queue length is k before the CPU's first step and    *)
(* k-1 after every later step.                                             *)
C17_TaskConservation ==
    Populated
    => \A c \in Cpus :
         LET q == cpus[c].runq
             k == Cardinality(Assigned(c))
         IN  /\ Cardinality(Range(q)) = Len(q)
             /\ cpus[c].running_task \notin Range(q)
             /\ Range(q) \cup ({cpus[c].running_task} \ {cpus[c].idle_task})
                  = Assigned(c)
             /\ k >= 1 => Len(q) = IF steps[c] = 0 THEN k ELSE k - 1

\* a CPU with two tasks or more has gone round its queue
C17_Witness ==
    /\ Populated
    /\ \E c \in Cpus :
          /\ Cardinality(Assigned(c)) >= 2
          /\ steps[c] > Cardinality(Assigned(c))

(* C18: idle runs only on task-less CPUs.  On a CPU with an assigned task  *)
(* no step selects the idle task: its runtime stays 0 and the clock is the *)
(* sum of the assigned tasks' runtimes; a CPU's only task is re-selected   *)
(* in every step.  On a CPU without tasks every step selects idle.         *)
C18_IdleOnlyWithoutTasks ==
    Populated
    => \A c \in Cpus :
         LET idle == cpus[c].idle_task
         IN  IF Assigned(c) # {}
             THEN /\ tasks[idle].total_runtime = 0
                  /\ dispatches[idle] = 0
                  /\ cpus[c].clock = SumRuntime(Assigned(c))
                  /\ steps[c] >= 1 => IsUser(cpus[c].running_task)
                  /\ (Cardinality(Assigned(c)) = 1 /\ steps[c] >= 1)
                     => /\ cpus[c].running_task \in Assigned(c)
                        /\ cpus[c].runq = <<>>
                        /\ dispatches[cpus[c].running_task] = steps[c]
             ELSE /\ cpus[c].running_task = idle
                  /\ dispatches[idle] = steps[c]
                  /\ tasks[idle].total_runtime = steps[c]
                  /\ cpus[c].clock = steps[c]

\* a CPU with a single task next to a CPU without tasks, both stepped often
C18_Witness ==
    /\ Populated
    /\ \E c, d \in Cpus :
          /\ Cardinality(Assigned(c)) = 1 /\ steps[c] >= 3
          /\ Assigned(d) = {} /\ steps[d] >= 3

(* C19: round-robin within a CPU.  With initial queue u0..u(k-1), k >= 1,  *)
(* the m-th step of the CPU runs u((m-1) mod k); after m steps task uj has *)
(* been dispatched m div k times, plus once if j < m mod k, so the counts  *)
(* of two tasks of a CPU differ by at most 1.                              *)
C19_RoundRobin ==
    Populated
    => \A c \in Cpus :
         LET u == SortedSeq(Assigned(c))
             k == Len(u)
             m == steps[c]
         IN  k >= 1
             => /\ m = 0 => cpus[c].runq = u
                /\ m >= 1 => cpus[c].running_task = u[((m - 1) % k) + 1]
                /\ \A j \in 1..k :
                     dispatches[u[j]] = (m \div k) + (IF j - 1 < m % k THEN 1 ELSE 0)
                /\ \A j1, j2 \in 1..k :
                     dispatches[u[j1]] - dispatches[u[j2]] \in {-1, 0, 1}

\* a CPU with three tasks in its second round
C19_Witness ==
    /\ Populated
    /\ \E c \in Cpus : Cardinality(Assigned(c)) = 3 /\ steps[c] = 5

(* C20: reference run end state.  With 8 CPUs and tasks 1000..1063         *)
(* run_forever returns after 125 steps on every CPU; CPU c then runs task  *)
(* 1032+c, its queue is [1040+c, 1048+c, 1056+c, 1000+c, 1008+c, 1016+c,   *)
(* 1024+c], its idle task has runtime 0, and its tasks 1000+c..1032+c have *)
(* been dispatched 16 times, tasks 1040+c, 1048+c, 1056+c 15 times.        *)
C20_Reference ==
    Len(cpus) = RefCpus /\ Cardinality(UserHandles) = RefTasks
                        /\ pc \in {"loop_head", "for_loop", "returned"}
    => /\ i <= 1000
       /\ pc = "returned"
          => \A c \in Cpus :
               LET n == c - 1
               IN  /\ steps[c] = 125
                   /\ tasks[cpus[c].running_task].id = 1032 + n
                   /\ Ids(cpus[c].runq)
                        = <<1040 + n, 1048 + n, 1056 + n, 1000 + n,
                            1008 + n, 1016 + n, 1024 + n>>
                   /\ tasks[cpus[c].idle_task].total_runtime = 0
                   /\ \A h \in UserHandles :
                        tasks[h].id % 8 = n
                        => dispatches[h] = IF tasks[h].id <= 1032 + n THEN 16 ELSE 15

\* run_forever has returned in main's configuration
C20_Witness ==
    /\ Len(cpus) = RefCpus
    /\ Cardinality(UserHandles) = RefTasks
    /\ pc = "returned"
    /\ \A c \in Cpus : steps[c] = 125

====
